---- MODULE Spec2Model ----
(***************************************************************************)
(* Sudoku core of hezhile/sudoku_cf: grid primitives, the full-board       *)
(* generator, the solution counter, the solver and the hole digger.        *)
(*                                                                         *)
(* Grids are indexed from 0 as in the JavaScript source.  A grid passed    *)
(* between functions is an array of row references; the rows live in       *)
(* `heap`, so that aliasing between a grid and its clone can be observed.  *)
(* The board local to generateFullBoard is never shared while it runs and  *)
(* is kept by value.                                                       *)
(***************************************************************************)
EXTENDS Integers, Sequences, FiniteSets, TLC

\* ------------------------------------------------------------ constants
GRID_SIZE == 9
BLOCK_SIZE == 3
\* "if (pos === 81) return true" in generateFullBoard
NumCells == 81
\* "countSolutions(board, 2)" in digHolesWithValidation
UniquenessLimit == 2

\* What board[i][j] reads past the end of a row: undefined, which is neither
\* === 0 nor === a digit.
Undefined == -1

\* ---------------------------------------------------------------- bounds
\* Seeds of the pseudo-random streams standing for Math.random.
MaxSeed == 3
MaxDigSeed == 1
\* Largest limit a client passes to countSolutions.
MaxLimit == 3
\* Largest ordinary holesTarget passed to digHolesWithValidation.
MaxHoles == 5

Idx == 0 .. (GRID_SIZE - 1)
Digits == 1 .. 9
Cells == 0 .. (NumCells - 1)

VARIABLES
  rnd,        \* the source of Math.random() values
  heap,       \* the rows allocated so far; a row reference is an index of heap
  \* generateFullBoard
  genBoard,   \* board
  nums,       \* nums (shared by every backtrack call)
  genStack,   \* iterator index of each active backtrack(pos)
  genPc,      \* "idle" | "start" | "loop" | "returned" | "thrown"
  \* countSolutions
  limit,      \* limit
  b,          \* b, the working clone (row references)
  count,      \* count
  cStack,     \* the active backtrack() calls: cell [r, c] and loop variable n
  cPc,        \* "idle" | "loop" | "after" | "done"
  cCaller,    \* who called countSolutions: "client" | "digger" | "none"
  \* solvePuzzle
  solveB,     \* b, the working clone (row references)
  sStack,     \* the active backtrack() calls
  sPc,        \* "idle" | "loop" | "done"
  solveRet,   \* the value returned: null, or the grid b
  \* digHolesWithValidation
  board,      \* board (row references)
  positions,  \* positions
  shuffleI,   \* i of the Fisher-Yates loop over positions
  idx,        \* idx
  holes,      \* holes
  holesTarget,\* holesTarget
  backup,     \* backup
  dPc,        \* "idle" | "shuffle" | "loop" | "counting" | "returned"
  \* the calling code
  main,       \* position of the caller
  input,      \* the grid the caller passes (row references)
  given,      \* the cells of that grid when it was passed
  counted,    \* the value countSolutions returned to the caller
  probe,      \* arguments [r, c, value] of the caller's isValidPlacement call
  probeRet,   \* the value isValidPlacement returned to the caller
  unique,     \* the value hasUniqueSolution returned to the caller
  \* the event bus
  dedupe,     \* TRUE: on() of ui/toast.js:191; FALSE: on() of utils/event-bus.js:19
  behaviour,  \* what each handler function does when called
  events,     \* events: event name -> array of handlers
  busStack,   \* the active emit() calls: event, array iterated, index
  nextOnce,   \* number of the next onceHandler closure
  onceCalls,  \* times the handler given to each once() call was invoked
  \* the timer
  now,        \* Date.now()
  timer,      \* startTime, running, pausedTime
  ranFor,     \* time spent running since the last resetTimer
  \* the game orchestrator
  solution,   \* solution
  puzzle,     \* puzzle
  givenMask,  \* givenMask
  rendered,   \* the arguments of the last renderBoard call
  saved,      \* the game state kept in localStorage
  globalState,\* isResetting, isPaused
  loading,    \* handleNewGame is waiting for its setTimeout(r, 100)
  timeouts,   \* pending "show reset toast" timeouts
  resetsSeen, \* game:reset events delivered with a puzzle present
  resetRuns,  \* resets executed so far
  resetToasts,\* 'game reset' toasts shown so far
  busy,       \* the argument of the last setLoading call
  effects,    \* what the handling of the latest game:new has done
  \* the records in localStorage
  records,    \* difficulty -> best and history, as loadRecords() reads it
  lastSaved,  \* the data of the last record:saved event
  \* the synchronisation with the remote tables
  games,      \* the rows of the remote table games, per local record
  syncRuns,   \* the batch inserts of syncLocalRecordsToSupabase in flight
  uploads,    \* the calls of uploadRecordOnComplete under way
  \* the global game counter
  kv,         \* the value KV holds under sudoku:game_count
  requests,   \* the increment requests under way
  responses   \* the counts the completed requests answered

genVars == <<genBoard, nums, genStack, genPc>>
countVars == <<limit, b, count, cStack, cPc, cCaller>>
solveVars == <<solveB, sStack, sPc, solveRet>>
digVars == <<board, positions, shuffleI, idx, holes, holesTarget, backup, dPc>>
clientVars == <<main, input, given, counted, probe, probeRet, unique>>
engineVars == <<rnd, heap, genVars, countVars, solveVars, digVars, clientVars>>
busVars == <<dedupe, behaviour, events, busStack, nextOnce, onceCalls>>
timerVars == <<now, timer, ranFor>>
gameVars == <<solution, puzzle, givenMask, rendered, saved, globalState,
              loading, timeouts, resetsSeen, resetRuns, resetToasts, busy,
              effects>>
storageVars == <<records, lastSaved>>
syncVars == <<games, syncRuns, uploads>>
counterVars == <<kv, requests, responses>>
cloudVars == <<storageVars, syncVars, counterVars>>
uiVars == <<busVars, timerVars, gameVars, cloudVars>>
vars == <<engineVars, uiVars>>

\* ------------------------------------------------------ grid primitives
createEmptyBoard == [r \in Idx |-> [c \in Idx |-> 0]]

\* The cells of the grid whose rows are the references g in heap h.
Contents(h, g) == [r \in Idx |-> h[g[r]]]

\* board.map(row => row.slice()): nine fresh rows, a fresh array of references.
cloneBoardShallow(h, g) == [heap |-> h, refs |-> g]

cloneBoard(h, g) ==
  [heap |-> h \o [i \in 1 .. GRID_SIZE |-> h[g[i - 1]]],
   refs |-> [r \in Idx |-> Len(h) + r + 1]]

\* Rows no longer referenced by any of the grids in `roots` are reclaimed.
Collect(h, roots) ==
  LET live == {g[r] : g \in roots, r \in Idx}
      top == CHOOSE m \in live : \A k \in live : k <= m
  IN SubSeq(h, 1, top)

isValidPlacementOwnCell(grid, r, c, value) ==
  IF value = 0 THEN TRUE
  ELSE /\ \A i \in Idx : ~(grid[r][i] = value)
       /\ \A i \in Idx : ~(grid[i][c] = value)
       /\ LET br == (r \div BLOCK_SIZE) * BLOCK_SIZE
              bc == (c \div BLOCK_SIZE) * BLOCK_SIZE
          IN \A i \in 0 .. (BLOCK_SIZE - 1) : \A j \in 0 .. (BLOCK_SIZE - 1) :
               ~(grid[br + i][bc + j] = value)

isValidPlacementNoRow(grid, r, c, value) ==
  IF value = 0 THEN TRUE
  ELSE /\ \A i \in Idx : ~(i # r /\ grid[i][c] = value)
       /\ LET br == (r \div BLOCK_SIZE) * BLOCK_SIZE
              bc == (c \div BLOCK_SIZE) * BLOCK_SIZE
          IN \A i \in 0 .. (BLOCK_SIZE - 1) : \A j \in 0 .. (BLOCK_SIZE - 1) :
               LET rr == br + i
                   cc == bc + j
               IN ~((rr # r \/ cc # c) /\ grid[rr][cc] = value)

isValidPlacementNoBlock(grid, r, c, value) ==
  IF value = 0 THEN TRUE
  ELSE /\ \A i \in Idx : ~(i # c /\ grid[r][i] = value)
       /\ \A i \in Idx : ~(i # r /\ grid[i][c] = value)

isValidPlacement(grid, r, c, value) ==
  IF value = 0 THEN TRUE
  ELSE /\ \A i \in Idx : ~(i # c /\ grid[r][i] = value)
       /\ \A i \in Idx : ~(i # r /\ grid[i][c] = value)
       /\ LET br == (r \div BLOCK_SIZE) * BLOCK_SIZE
              bc == (c \div BLOCK_SIZE) * BLOCK_SIZE
          IN \A i \in 0 .. (BLOCK_SIZE - 1) : \A j \in 0 .. (BLOCK_SIZE - 1) :
               LET rr == br + i
                   cc == bc + j
               IN ~((rr # r \/ cc # c) /\ grid[rr][cc] = value)

MinOf(S) == CHOOSE x \in S : \A y \in S : x <= y

\* findEmpty: the first empty cell in row-major order as <<i, j>>; << >> is null.
findEmpty(grid) ==
  LET empty == {p \in Cells : grid[p \div GRID_SIZE][p % GRID_SIZE] = 0}
  IN IF empty = {} THEN << >>
     ELSE <<MinOf(empty) \div GRID_SIZE, MinOf(empty) % GRID_SIZE>>

\* -------------------------------------------------------- Math.random
\* Math.random is modelled by bounded families of streams:
\*   "lcg"       a linear congruential stream started from a seed,
\*   "identity"  the stream whose Fisher-Yates draws leave the array as it is,
\*   "adversary" the stream whose draws produce the order `aim`.
\* Every draw j for index i lies in 0..i, as floor(Math.random() * (i + 1)).
LcgNext(x) == (x * 5 + 3) % 256

Draw(src, array, i, aim) ==
  CASE src.kind = "lcg" -> (LcgNext(src.x) * (i + 1)) \div 256
    [] src.kind = "identity" -> i
    [] OTHER -> CHOOSE j \in 0 .. i : array[j] = aim[i]

Advance(src) ==
  IF src.kind = "lcg" THEN [src EXCEPT !.x = LcgNext(src.x)] ELSE src

\* shuffle: for (i = length - 1; i > 0; i--) swap array[i], array[j].
RECURSIVE shuffleFrom(_, _, _, _)
shuffleFrom(array, i, src, aim) ==
  IF i <= 0 THEN [array |-> array, rnd |-> src]
  ELSE LET j == Draw(src, array, i, aim)
       IN shuffleFrom([array EXCEPT ![i] = array[j], ![j] = array[i]],
                      i - 1, Advance(src), aim)

shuffle(array, src, aim) ==
  shuffleFrom(array, Cardinality(DOMAIN array) - 1, src, aim)

LcgSources(maxSeed) == {[kind |-> "lcg", x |-> s] : s \in 0 .. maxSeed}
Identity == [kind |-> "identity", x |-> 0]
Adversary == [kind |-> "adversary", x |-> 0]

\* ------------------------------------------ the adversarial random stream
\* The stream "adversary" answers every shuffle with the order in which the
\* callers that will read nums next meet digits their cell rejects for as
\* long as possible.  It is one possible outcome of Math.random.
\* The cells before position a (row-major) in its row, column or block.
PeersBefore ==
  [a \in 0 .. (NumCells - 1) |->
     {q \in 0 .. (a - 1) :
        \/ q \div 9 = a \div 9
        \/ q % 9 = a % 9
        \/ /\ (q \div 9) \div BLOCK_SIZE = (a \div 9) \div BLOCK_SIZE
           /\ (q % 9) \div BLOCK_SIZE = (a % 9) \div BLOCK_SIZE}] @@ << >>

\* The digits isValidPlacement rejects at position a when the cells from a
\* on are empty and the cells before a are filled.
RejectedAt(grid, a) == {grid[q \div 9][q % 9] : q \in PeersBefore[a]}

\* Among `cands`, the digit rejected by most of the callers above the
\* reader; score[d] is the number of those callers rejecting d.
MostRejected(score, cands) ==
  CHOOSE d \in cands :
    \A e \in cands : score[e] < score[d] \/ (score[e] = score[d] /\ d <= e)

\* Fill the order slot by slot as `reader` (then its callers) will read it:
\* idxs[a + 1] is the iterator index of the active backtrack(a).
RECURSIVE AimFill(_, _, _, _, _)
AimFill(rej, idxs, order, reader, k) ==
  IF k > 8
  THEN IF reader = 0 THEN order
       ELSE AimFill(rej, idxs, order, reader - 1, idxs[reader] + 1)
  ELSE IF order[k] # 0
  THEN IF order[k] \in rej[reader]
       THEN AimFill(rej, idxs, order, reader, k + 1)
       ELSE order
  ELSE LET unused == Digits \ {order[i] : i \in Idx}
           inv == unused \cap rej[reader]
       IN IF inv = {}
          THEN [order EXCEPT ![k] = MinOf(unused)]
          ELSE LET score == [d \in Digits |->
                              Cardinality({a \in 0 .. (reader - 1) : d \in rej[a]})]
                                @@ << >>
               IN AimFill(rej, idxs,
                          [order EXCEPT ![k] = MostRejected(score, inv)],
                          reader, k + 1)

\* Put the digits not yet placed into the free slots, in ascending order.
RECURSIVE AimComplete(_, _)
AimComplete(order, k) ==
  IF k > 8 THEN order
  ELSE IF order[k] # 0 THEN AimComplete(order, k + 1)
  ELSE AimComplete([order EXCEPT ![k] = MinOf(Digits \ {order[i] : i \in Idx})],
                   k + 1)

\* The order the adversary aims at when backtrack(pos) is entered.
Aim(grid, idxs, pos) ==
  LET rej == [a \in 0 .. pos |-> RejectedAt(grid, a)] @@ << >>
      empty == [i \in Idx |-> 0]
      filled == IF rej[pos] = Digits
                THEN IF pos = 0 THEN empty
                     ELSE AimFill(rej, idxs, empty, pos - 1, idxs[pos] + 1)
                ELSE AimFill(rej, idxs, empty, pos, 0)
  IN AimComplete(filled, 0)

\* ------------------------------------------------------ generateFullBoard
\* The shuffle at the entry of backtrack(pos): nums is shared, so the order
\* read by the callers changes as well.
EnterBacktrack(grid, idxs, pos) ==
  shuffle(nums, rnd, IF rnd.kind = "adversary" THEN Aim(grid, idxs, pos) ELSE nums)

\* const success = backtrack();  -- the call with pos = 0
GenStart ==
  /\ genPc = "start"
  /\ \E sh \in {EnterBacktrack(genBoard, genStack, 0)} :
       /\ nums' = sh.array
       /\ rnd' = sh.rnd
  /\ genStack' = <<0>>
  /\ genPc' = "loop"
  /\ UNCHANGED <<uiVars, genBoard, heap, countVars, solveVars, digVars, clientVars>>

\* The iterator indexes from `from` on at which the cell of pos accepts the
\* digit read from `order`.
ValidFrom(grid, pos, order, from) ==
  {k \in from .. (GRID_SIZE - 1) :
     isValidPlacement(grid, pos \div 9, pos % 9, order[k])}

\* "for (const n of nums)" in the innermost active call, from the position
\* of its iterator up to the first digit the cell accepts: the digit is
\* placed and backtrack(pos + 1) is entered.  The iterator reads nums at its
\* index; nums does not change while rejected digits are passed over.
TryDigit ==
  /\ genPc = "loop"
  /\ LET pos == Len(genStack) - 1
         r == pos \div 9
         c == pos % 9
     IN \E k \in ValidFrom(genBoard, pos, nums, genStack[Len(genStack)]) :
          /\ \A j \in genStack[Len(genStack)] .. (k - 1) :
               ~isValidPlacement(genBoard, r, c, nums[j])
          /\ genBoard' = [genBoard EXCEPT ![r][c] = nums[k]]
          /\ IF pos + 1 = NumCells
             THEN /\ genPc' = "returned"
                  /\ genStack' = [genStack EXCEPT ![pos + 1] = k]
                  /\ UNCHANGED <<nums, rnd>>
             ELSE /\ genPc' = "loop"
                  /\ genStack' = Append([genStack EXCEPT ![pos + 1] = k], 0)
                  /\ \E sh \in {EnterBacktrack(genBoard', genStack', pos + 1)} :
                       /\ nums' = sh.array
                       /\ rnd' = sh.rnd
  /\ UNCHANGED <<uiVars, heap, countVars, solveVars, digVars, clientVars>>

\* No digit from the iterator's position on is accepted: the loop of the
\* innermost call ends and it returns false.  Its caller resets its cell and
\* goes on with its next index; with no caller left, generateFullBoard throws
\* 'Failed to generate full board'.
ReturnFalse ==
  /\ genPc = "loop"
  /\ ValidFrom(genBoard, Len(genStack) - 1, nums, genStack[Len(genStack)]) = {}
  /\ IF Len(genStack) = 1
     THEN /\ genPc' = "thrown"
          /\ genStack' = << >>
          /\ UNCHANGED genBoard
     ELSE LET ppos == Len(genStack) - 2
          IN /\ genBoard' = [genBoard EXCEPT ![ppos \div 9][ppos % 9] = 0]
             /\ genStack' = [SubSeq(genStack, 1, Len(genStack) - 1)
                               EXCEPT ![Len(genStack) - 1] = @ + 1]
             /\ genPc' = "loop"
  /\ UNCHANGED <<uiVars, nums, rnd, heap, countVars, solveVars, digVars, clientVars>>

GenNext == GenStart \/ TryDigit \/ ReturnFalse

\* --------------------------------------------------------- countSolutions
\* The entry of backtrack(): "if (count >= limit) return", then findEmpty;
\* with no empty cell count++ and return; otherwise the loop over n starts.
\* `frames` is the call that stays active (none when backtrack returned).
BacktrackEntry(grid, cnt, lim) ==
  IF cnt >= lim THEN [count |-> cnt, frames |-> << >>]
  ELSE LET pos == findEmpty(grid)
       IN IF pos = << >> THEN [count |-> cnt + 1, frames |-> << >>]
          ELSE [count |-> cnt,
                frames |-> << [r |-> pos[1], c |-> pos[2], n |-> 1] >>]

\* "if (count >= limit) return" after the recursive call and the reset.
AfterPlacementNeverReturns(cnt, lim) == FALSE

AfterPlacementReturnsAtFirst(cnt, lim) == cnt >= 1
AfterPlacementReturns(cnt, lim) == cnt >= lim

\* countSolutions(arg, lim) up to the first iteration of the outermost loop:
\* b = cloneBoard(board); count = 0; backtrack().
CallCountSolutions(h, arg, lim, caller) ==
  LET cl == cloneBoard(h, arg)
      e == BacktrackEntry(Contents(cl.heap, cl.refs), 0, lim)
  IN /\ heap' = cl.heap
     /\ b' = cl.refs
     /\ limit' = lim
     /\ count' = e.count
     /\ cStack' = e.frames
     /\ cPc' = IF e.frames = << >> THEN "done" ELSE "loop"
     /\ cCaller' = caller

\* One iteration of "for (n = 1; n <= 9; n++)" in the innermost call, up to
\* the entry of the recursive call when the digit is placed.
CountTry ==
  /\ cPc = "loop"
  /\ cStack[Len(cStack)].n <= 9
  /\ LET f == cStack[Len(cStack)]
     IN IF isValidPlacement(Contents(heap, b), f.r, f.c, f.n)
        THEN LET h1 == [heap EXCEPT ![b[f.r]][f.c] = f.n]
                 e == BacktrackEntry(Contents(h1, b), count, limit)
             IN /\ heap' = h1
                /\ count' = e.count
                /\ cStack' = cStack \o e.frames
                /\ cPc' = IF e.frames = << >> THEN "after" ELSE "loop"
        ELSE /\ cStack' = [cStack EXCEPT ![Len(cStack)].n = @ + 1]
             /\ UNCHANGED <<heap, count, cPc>>
  /\ UNCHANGED <<uiVars, b, limit, cCaller, rnd, genVars, solveVars, digVars, clientVars>>

\* The recursive call returned: b[r][c] = 0; if (count >= limit) return.
CountAfter ==
  /\ cPc = "after"
  /\ LET f == cStack[Len(cStack)]
     IN /\ heap' = [heap EXCEPT ![b[f.r]][f.c] = 0]
        /\ IF AfterPlacementReturns(count, limit)
           THEN /\ cStack' = SubSeq(cStack, 1, Len(cStack) - 1)
                /\ cPc' = IF Len(cStack) = 1 THEN "done" ELSE "after"
           ELSE /\ cStack' = [cStack EXCEPT ![Len(cStack)].n = @ + 1]
                /\ cPc' = "loop"
  /\ UNCHANGED <<uiVars, b, limit, count, cCaller, rnd, genVars, solveVars, digVars,
                 clientVars>>

\* n has passed 9: the innermost call returns.
CountLoopEnd ==
  /\ cPc = "loop"
  /\ cStack[Len(cStack)].n > 9
  /\ cStack' = SubSeq(cStack, 1, Len(cStack) - 1)
  /\ cPc' = IF Len(cStack) = 1 THEN "done" ELSE "after"
  /\ UNCHANGED <<uiVars, heap, b, limit, count, cCaller, rnd, genVars, solveVars,
                 digVars, clientVars>>

\* ------------------------------------------------------------ solvePuzzle
\* The entry of backtrack(): findEmpty; with no empty cell return true.
SolveEntry(grid) ==
  LET pos == findEmpty(grid)
  IN IF pos = << >> THEN << >>
     ELSE << [r |-> pos[1], c |-> pos[2], n |-> 1] >>

Null == [null |-> TRUE, grid |-> << >>]
Returned(g) == [null |-> FALSE, grid |-> g]

\* One iteration of the loop over n in the innermost call.  When the
\* recursive call finds the grid full, every active call returns true and
\* solvePuzzle returns b.
SolveTry ==
  /\ sPc = "loop"
  /\ sStack[Len(sStack)].n <= 9
  /\ LET f == sStack[Len(sStack)]
     IN IF isValidPlacement(Contents(heap, solveB), f.r, f.c, f.n)
        THEN LET h1 == [heap EXCEPT ![solveB[f.r]][f.c] = f.n]
                 fr == SolveEntry(Contents(h1, solveB))
             IN /\ heap' = h1
                /\ IF fr = << >>
                   THEN /\ sStack' = << >>
                        /\ sPc' = "done"
                        /\ solveRet' = Returned(solveB)
                   ELSE /\ sStack' = sStack \o fr
                        /\ UNCHANGED <<sPc, solveRet>>
        ELSE /\ sStack' = [sStack EXCEPT ![Len(sStack)].n = @ + 1]
             /\ UNCHANGED <<heap, sPc, solveRet>>
  /\ UNCHANGED <<uiVars, solveB, rnd, genVars, countVars, digVars, clientVars>>

\* n has passed 9: the innermost call returns false; its caller resets its
\* cell and goes on; with no caller left solvePuzzle returns null.
SolveReturnFalse ==
  /\ sPc = "loop"
  /\ sStack[Len(sStack)].n > 9
  /\ IF Len(sStack) = 1
     THEN /\ sStack' = << >>
          /\ sPc' = "done"
          /\ solveRet' = Null
          /\ UNCHANGED heap
     ELSE LET p == sStack[Len(sStack) - 1]
          IN /\ heap' = [heap EXCEPT ![solveB[p.r]][p.c] = 0]
             /\ sStack' = [SubSeq(sStack, 1, Len(sStack) - 1)
                             EXCEPT ![Len(sStack) - 1].n = @ + 1]
             /\ UNCHANGED <<sPc, solveRet>>
  /\ UNCHANGED <<uiVars, solveB, rnd, genVars, countVars, digVars, clientVars>>

\* ------------------------------------------------- digHolesWithValidation
\* positions after the two nested loops of positions.push([i, j]).
AllPositions == [p \in Cells |-> <<p \div GRID_SIZE, p % GRID_SIZE>>]

\* The order the stream "adversary" gives positions, as cell numbers
\* 9 * i + j: the four cells (0,0), (0,1), (3,0), (3,1) first, of which the
\* fourth cannot be removed once the other three are, then an order under
\* which the removals that must be undone are tried early.
DigOrder ==
  << 0, 1, 27, 28, 2, 3, 4, 5, 6, 7, 8, 15, 16, 17, 21, 22, 23, 24, 12, 9,
     18, 25, 13, 10, 19, 26, 11, 14, 20, 29, 32, 31, 35, 37, 39, 40, 43, 42,
     44, 45, 50, 53, 38, 47, 41, 52, 54, 56, 59, 61, 62, 34, 60, 33, 63, 64,
     67, 71, 72, 77, 80, 65, 68, 74, 48, 49, 57, 69, 51, 73, 75, 30, 46, 66,
     78, 55, 76, 58, 70, 79, 36 >>

DigAim ==
  [i \in Cells |->
     <<DigOrder[i + 1] \div GRID_SIZE, DigOrder[i + 1] % GRID_SIZE>>] @@ << >>

\* The loop condition "idx < positions.length && holes < holesTarget".
LoopContinuesOneMore(i, len, h, target) == i < len /\ h <= target

LoopContinues(i, len, h, target) == i < len /\ h < target

\* "if (solutions !== 1)": the removal is undone.
RejectsOnlyNone(solutions) == solutions = 0

Rejects(solutions) == solutions # 1

\* digHolesWithValidation(input, holesTarget) up to the Fisher-Yates loop:
\* the clone and the positions.
DigCall ==
  /\ main = "init"
  /\ LET cl == cloneBoard(heap, input)
     IN /\ heap' = cl.heap
        /\ board' = cl.refs
  /\ positions' = AllPositions
  /\ shuffleI' = Cardinality(DOMAIN AllPositions) - 1
  /\ dPc' = "shuffle"
  /\ main' = "digging"
  /\ UNCHANGED <<uiVars, idx, holes, holesTarget, backup, rnd, input, given, counted,
                 probe, probeRet, unique, genVars, countVars,
                 solveVars>>

\* One iteration of "for (i = positions.length - 1; i > 0; i--)": the swap
\* of positions[i] and positions[j]; after the last one holes = 0, idx = 0.
DigShuffle ==
  /\ dPc = "shuffle"
  /\ shuffleI > 0
  /\ LET j == Draw(rnd, positions, shuffleI, DigAim)
     IN positions' = [positions EXCEPT ![shuffleI] = positions[j],
                                       ![j] = positions[shuffleI]]
  /\ rnd' = Advance(rnd)
  /\ shuffleI' = shuffleI - 1
  /\ IF shuffleI - 1 > 0
     THEN UNCHANGED <<dPc, holes, idx>>
     ELSE /\ dPc' = "loop"
          /\ holes' = 0
          /\ idx' = 0
  /\ UNCHANGED <<uiVars, heap, board, holesTarget, backup, genVars, countVars,
                 solveVars, clientVars>>

\* One iteration of the loop up to the call of countSolutions(board, 2).
DigStep ==
  /\ dPc = "loop"
  /\ LoopContinues(idx, Cardinality(DOMAIN positions), holes, holesTarget)
  /\ LET r == positions[idx][1]
         c == positions[idx][2]
     IN IF heap[board[r]][c] = 0
        THEN /\ idx' = idx + 1
             /\ UNCHANGED <<heap, backup, dPc, countVars>>
        ELSE /\ backup' = heap[board[r]][c]
             /\ CallCountSolutions([heap EXCEPT ![board[r]][c] = 0], board,
                                   UniquenessLimit, "digger")
             /\ dPc' = "counting"
             /\ UNCHANGED idx
  /\ UNCHANGED <<uiVars, board, positions, shuffleI, holes, holesTarget, rnd, genVars,
                 solveVars, clientVars>>

\* countSolutions returned: the removal is undone or counted; idx++.
DigResume ==
  /\ dPc = "counting"
  /\ cPc = "done"
  /\ cCaller = "digger"
  /\ LET r == positions[idx][1]
         c == positions[idx][2]
         h1 == Collect(heap, {input, board})
     IN IF Rejects(count)
        THEN /\ heap' = [h1 EXCEPT ![board[r]][c] = backup]
             /\ UNCHANGED holes
        ELSE /\ heap' = h1
             /\ holes' = holes + 1
  /\ idx' = idx + 1
  /\ dPc' = "loop"
  /\ cPc' = "idle"
  /\ cStack' = << >>
  /\ b' = << >>
  /\ UNCHANGED <<uiVars, limit, count, cCaller, board, positions, shuffleI, holesTarget,
                 backup, rnd, genVars, solveVars, clientVars>>

\* The loop condition is false: return board.
DigReturn ==
  /\ dPc = "loop"
  /\ ~LoopContinues(idx, Cardinality(DOMAIN positions), holes, holesTarget)
  /\ dPc' = "returned"
  /\ main' = "dug"
  /\ UNCHANGED <<uiVars, heap, board, positions, shuffleI, idx, holes, holesTarget,
                 backup, rnd, input, given, counted, probe, probeRet, unique,
                 genVars,
                 countVars, solveVars>>

\* ------------------------------------------------------- the calling code
\* const n = countSolutions(g, limit)
ClientCount ==
  /\ main = "init"
  /\ CallCountSolutions(heap, input, limit, "client")
  /\ main' = "counting"
  /\ UNCHANGED <<uiVars, input, given, counted, probe, probeRet, unique, rnd, genVars,
                 solveVars, digVars>>

\* countSolutions(puzzle, 2) on the grid the digger returned.
ClientVerify ==
  /\ main = "dug"
  /\ CallCountSolutions(heap, board, UniquenessLimit, "client")
  /\ main' = "verifying"
  /\ UNCHANGED <<uiVars, input, given, counted, probe, probeRet, unique, rnd, genVars,
                 solveVars, digVars>>

\* countSolutions returns count to the calling code.
ClientCounted ==
  /\ cPc = "done"
  /\ cCaller = "client"
  /\ counted' = count
  /\ heap' = Collect(heap, IF main = "verifying" THEN {input, board} ELSE {input})
  /\ main' = IF main = "verifying" THEN "verified" ELSE "counted"
  /\ cPc' = "idle"
  /\ cStack' = << >>
  /\ b' = << >>
  /\ UNCHANGED <<uiVars, limit, count, cCaller, input, given, probe, probeRet, unique,
                 rnd,
                 genVars, solveVars, digVars>>

\* const solved = solvePuzzle(g): the clone and the outermost backtrack().
ClientSolve ==
  /\ main = "counted"
  /\ LET cl == cloneBoard(heap, input)
         fr == SolveEntry(Contents(cl.heap, cl.refs))
     IN /\ heap' = cl.heap
        /\ solveB' = cl.refs
        /\ sStack' = fr
        /\ sPc' = IF fr = << >> THEN "done" ELSE "loop"
        /\ solveRet' = IF fr = << >> THEN Returned(cl.refs) ELSE solveRet
  /\ main' = "solving"
  /\ UNCHANGED <<uiVars, input, given, counted, probe, probeRet, unique, rnd, genVars,
                 countVars, digVars>>

\* const ok = isValidPlacement(g, r, c, value)
ClientProbe ==
  /\ main = "init"
  /\ probeRet' = isValidPlacement(Contents(heap, input), probe.r, probe.c,
                                  probe.value)
  /\ main' = "probed"
  /\ UNCHANGED <<uiVars, heap, input, given, counted, probe, unique, rnd, genVars,
                 countVars,
                 solveVars, digVars>>

\* hasUniqueSolution(g): countSolutions(board, 2) is called.
ClientUnique ==
  /\ main = "counted"
  /\ CallCountSolutions(heap, input, UniquenessLimit, "unique")
  /\ main' = "asking"
  /\ UNCHANGED <<uiVars, input, given, counted, probe, probeRet, unique, rnd, genVars,
                 solveVars, digVars>>

\* The value hasUniqueSolution makes of the count.
IsPositive(n) == n >= 1
IsOne(n) == n = 1

\* return countSolutions(board, 2) === 1
UniqueReturn ==
  /\ cPc = "done"
  /\ cCaller = "unique"
  /\ unique' = IsOne(count)
  /\ heap' = Collect(heap, {input})
  /\ main' = "asked"
  /\ cPc' = "idle"
  /\ cStack' = << >>
  /\ b' = << >>
  /\ UNCHANGED <<uiVars, limit, count, cCaller, input, given, counted, probe, probeRet,
                 rnd, genVars, solveVars, digVars>>

\* ----------------------------------------------------------------- inputs
\* The grid generateFullBoard returns when every shuffle leaves nums as it is.
BaseRows ==
  << <<1, 2, 3, 4, 5, 6, 7, 8, 9>>,
     <<4, 5, 6, 7, 8, 9, 1, 2, 3>>,
     <<7, 8, 9, 1, 2, 3, 4, 5, 6>>,
     <<2, 1, 4, 3, 6, 5, 8, 9, 7>>,
     <<3, 6, 5, 8, 9, 7, 2, 1, 4>>,
     <<8, 9, 7, 2, 1, 4, 3, 6, 5>>,
     <<5, 3, 1, 6, 4, 2, 9, 7, 8>>,
     <<6, 4, 2, 9, 7, 8, 5, 3, 1>>,
     <<9, 7, 8, 5, 3, 1, 6, 4, 2>> >>

BaseSolution == [r \in Idx |-> [c \in Idx |-> BaseRows[r + 1][c + 1]]]

\* Grids a caller can pass to the counter, the solver and isValidPlacement:
\* BaseSolution with the cells (0,0), (0,1), (3,0), (3,1) overwritten by 0, 1
\* or 2.  They include full and partial grids, grids with one, two and no
\* completion, and grids whose filled cells conflict.
EditCells == {<<0, 0>>, <<0, 1>>, <<3, 0>>, <<3, 1>>}
EditValues == {0, 1, 2}

Edited(e) ==
  [r \in Idx |-> [c \in Idx |->
     IF <<r, c>> \in EditCells THEN e[<<r, c>>] ELSE BaseSolution[r][c]]]

EditGrids == {Edited(e) : e \in [EditCells -> EditValues]}

\* ---------------------------------------------------------- the event bus
\* The events and the handler functions the callers use.
EventNames == {"game:reset", "timer:tick"}
Fns == {"h1", "h2"}
\* once() calls, nested emit() calls, handlers in one array, counted calls.
MaxOnce == 2
MaxDepth == 2
MaxHandlers == 2
MaxCalls == 2

\* A handler in an array: the function fn itself (wrap = 0), or the closure
\* onceHandler made by the wrap-th call of once() around fn.
Plain(f) == [fn |-> f, wrap |-> 0]
OnceHandler(f, k) == [fn |-> f, wrap |-> k]

\* events[event].includes(handler)
includes(array, handler) == \E i \in 1 .. Len(array) : array[i] = handler

\* events[event].filter(h => h !== handler)
RECURSIVE filter(_, _)
filter(array, handler) ==
  IF array = << >> THEN << >>
  ELSE IF Head(array) = handler THEN filter(Tail(array), handler)
  ELSE <<Head(array)>> \o filter(Tail(array), handler)

\* The test on() of ui/toast.js makes before it pushes the handler.
PushesWhenNew(array, handler) == ~includes(array, handler)

\* on(event, handler): the events object after the call.
on(ev, event, handler, guard) ==
  LET made == IF event \in DOMAIN ev THEN ev ELSE ev @@ (event :> << >>)
  IN IF guard => PushesWhenNew(made[event], handler)
     THEN [made EXCEPT ![event] = Append(@, handler)]
     ELSE made

\* off(event, handler)
off(ev, event, handler) ==
  IF event \in DOMAIN ev
  THEN [ev EXCEPT ![event] = filter(@, handler)]
  ELSE ev

\* clear(event): delete events[event]
clear(ev, event) == [e \in DOMAIN ev \ {event} |-> ev[e]]

\* What onceHandler does after handler(data) has returned.
RemovesOnceHandler(ev, event, handler) ==
  IF handler.wrap > 0 THEN off(ev, event, handler) ELSE ev

BusQuiet == busStack = << >>

\* A caller calls on(event, f).
On ==
  /\ BusQuiet
  /\ \E e \in EventNames, f \in Fns :
       /\ e \in DOMAIN events => Len(events[e]) < MaxHandlers
       /\ events' = on(events, e, Plain(f), dedupe)
  /\ UNCHANGED <<dedupe, behaviour, busStack, nextOnce, onceCalls, timerVars,
                 gameVars, engineVars, cloudVars>>

\* A caller calls off(event, f).
Off ==
  /\ BusQuiet
  /\ \E e \in EventNames, f \in Fns : events' = off(events, e, Plain(f))
  /\ UNCHANGED <<dedupe, behaviour, busStack, nextOnce, onceCalls, timerVars,
                 gameVars, engineVars, cloudVars>>

\* A caller calls once(event, f): on(event, onceHandler) with a new closure.
Once ==
  /\ BusQuiet
  /\ nextOnce <= MaxOnce
  /\ \E e \in EventNames, f \in Fns :
       /\ e \in DOMAIN events => Len(events[e]) < MaxHandlers
       /\ events' = on(events, e, OnceHandler(f, nextOnce), dedupe)
  /\ nextOnce' = nextOnce + 1
  /\ UNCHANGED <<dedupe, behaviour, busStack, onceCalls, timerVars, gameVars,
                 engineVars, cloudVars>>

\* A caller calls clear(event).
Clear ==
  /\ BusQuiet
  /\ \E e \in EventNames : events' = clear(events, e)
  /\ UNCHANGED <<dedupe, behaviour, busStack, nextOnce, onceCalls, timerVars,
                 gameVars, engineVars, cloudVars>>

\* The frame of an emit(event): forEach over the array events[event] holds
\* at the call; inCall is TRUE while the handler at index i runs.
EmitFrame(ev, event) ==
  [event |-> event, array |-> ev[event], i |-> 1, inCall |-> FALSE]

\* A caller calls emit(event).
Emit ==
  /\ BusQuiet
  /\ \E e \in DOMAIN events : busStack' = <<EmitFrame(events, e)>>
  /\ UNCHANGED <<dedupe, behaviour, events, nextOnce, onceCalls, timerVars,
                 gameVars, engineVars, cloudVars>>

Counted(calls, h) ==
  IF h.wrap > 0
  THEN [calls EXCEPT ![h.wrap] = IF @ < MaxCalls THEN @ + 1 ELSE @]
  ELSE calls

\* forEach calls the next handler of the innermost emit.  The handler returns,
\* throws (caught by emit), or emits the same event again; a onceHandler
\* calls off(event, onceHandler) after handler(data) has returned.
CallHandler ==
  /\ busStack # << >>
  /\ LET top == Len(busStack)
         f == busStack[top]
     IN /\ ~f.inCall
        /\ f.i <= Len(f.array)
        /\ LET h == f.array[f.i]
               nested == /\ behaviour[h.fn] = "emit"
                         /\ top < MaxDepth
                         /\ f.event \in DOMAIN events
           IN /\ onceCalls' = Counted(onceCalls, h)
              /\ IF nested
                 THEN /\ busStack' = Append([busStack EXCEPT ![top].inCall = TRUE],
                                            EmitFrame(events, f.event))
                      /\ UNCHANGED events
                 ELSE /\ busStack' = [busStack EXCEPT ![top].i = @ + 1]
                      /\ events' = IF behaviour[h.fn] = "throw" THEN events
                                   ELSE RemovesOnceHandler(events, f.event, h)
  /\ UNCHANGED <<dedupe, behaviour, nextOnce, timerVars, gameVars, engineVars, cloudVars>>

\* forEach of the innermost emit is over: emit returns.  When it was called
\* by a handler, that handler returns too.
EmitReturn ==
  /\ busStack # << >>
  /\ LET top == Len(busStack)
         f == busStack[top]
     IN /\ f.i > Len(f.array)
        /\ IF top = 1
           THEN /\ busStack' = << >>
                /\ UNCHANGED events
           ELSE LET g == busStack[top - 1]
                IN /\ busStack' = [SubSeq(busStack, 1, top - 1)
                                     EXCEPT ![top - 1].i = @ + 1,
                                            ![top - 1].inCall = FALSE]
                   /\ events' = RemovesOnceHandler(events, g.event, g.array[g.i])
  /\ UNCHANGED <<dedupe, behaviour, nextOnce, onceCalls, timerVars, gameVars,
                 engineVars, cloudVars>>

BusNext == On \/ Off \/ Once \/ Clear \/ Emit \/ CallHandler \/ EmitReturn

\* -------------------------------------------------------------- the timer
\* Date.now() when the page is loaded, and how far the clock is followed.
\* Epoch is larger than every elapsed time, as Date.now() is.
Epoch == 10
MaxClock == 8

\* startTime = null; a value that is not a number (Date.now() - undefined).
NoTime == -1
NotANumber == -2

\* !startTime
Falsy(x) == x = NoTime \/ x = 0 \/ x = NotANumber

\* a - b in JavaScript numbers
Minus(a, c) ==
  IF a \in {NotANumber, Undefined} \/ c \in {NotANumber, Undefined}
  THEN NotANumber
  ELSE a - c

\* let startTime = null; let timerInterval = null; let running = false;
\* let pausedTime = 0;
FreshTimer ==
  [startTime |-> NoTime, timerInterval |-> FALSE, running |-> FALSE,
   pausedTime |-> 0]

getElapsedTime(t, clock) ==
  IF Falsy(t.startTime) THEN 0
  ELSE IF t.running THEN Minus(clock, t.startTime)
  ELSE t.pausedTime

startTimer(t, clock) ==
  IF t.running THEN t
  ELSE [startTime |-> Minus(clock, t.pausedTime), timerInterval |-> TRUE,
        running |-> TRUE, pausedTime |-> 0]

\* The value stopTimer keeps in pausedTime.
DropsElapsed(elapsed) == 0
KeepsElapsed(elapsed) == elapsed

stopTimer(t, clock) ==
  [t EXCEPT !.timerInterval = FALSE,
            !.pausedTime = KeepsElapsed(getElapsedTime(t, clock)),
            !.running = FALSE]

pauseTimer(t, clock) ==
  IF ~t.running THEN t
  ELSE [t EXCEPT !.timerInterval = FALSE,
                 !.pausedTime = Minus(clock, t.startTime),
                 !.running = FALSE]

resumeTimer(t, clock) == IF t.running THEN t ELSE startTimer(t, clock)

resetTimer(t, clock) ==
  [stopTimer(t, clock) EXCEPT !.startTime = NoTime, !.pausedTime = 0]

setElapsedTime(t, elapsed) == [t EXCEPT !.pausedTime = elapsed]

startTimerWithElapsed(t, clock, elapsed) ==
  startTimer(setElapsedTime(t, elapsed), clock)

\* Time passes: Date.now() grows by one unit.
Tick ==
  /\ now < Epoch + MaxClock
  /\ now' = now + 1
  /\ ranFor' = IF timer.running THEN ranFor + 1 ELSE ranFor
  /\ UNCHANGED <<timer, busVars, gameVars, engineVars, cloudVars>>

\* A caller calls startTimer(), stopTimer(), pauseTimer() or resumeTimer().
StartTimer ==
  /\ timer' = startTimer(timer, now)
  /\ UNCHANGED <<now, ranFor, busVars, gameVars, engineVars, cloudVars>>

StopTimer ==
  /\ timer' = stopTimer(timer, now)
  /\ UNCHANGED <<now, ranFor, busVars, gameVars, engineVars, cloudVars>>

PauseTimer ==
  /\ timer' = pauseTimer(timer, now)
  /\ UNCHANGED <<now, ranFor, busVars, gameVars, engineVars, cloudVars>>

ResumeTimer ==
  /\ timer' = resumeTimer(timer, now)
  /\ UNCHANGED <<now, ranFor, busVars, gameVars, engineVars, cloudVars>>

\* A caller calls resetTimer().
ResetTimer ==
  /\ timer' = resetTimer(timer, now)
  /\ ranFor' = 0
  /\ UNCHANGED <<now, busVars, gameVars, engineVars, cloudVars>>

TimerNext ==
  Tick \/ StartTimer \/ StopTimer \/ PauseTimer \/ ResumeTimer \/ ResetTimer

\* --------------------------------------------------- the game orchestrator
\* let solution = null; let puzzle = null; let givenMask = null;
NoGrid == << >>
\* localStorage holds no game state.
NoSave == << >>
\* game:reset events followed, calls of handleNewGame awaiting at once.
MaxResets == 3
MaxLoading == 1
\* How far the clock is followed while the page is used.
MaxGameClock == 2

\* BaseSolution with the cells of `dug` emptied.
Dug(dug) ==
  [r \in Idx |-> [c \in Idx |->
     IF <<r, c>> \in dug THEN 0 ELSE BaseSolution[r][c]]]

\* Puzzles digHolesWithValidation returns for BaseSolution: no hole (target
\* 0), one hole, two holes.
PuzzlePool == {Dug({}), Dug({<<0, 0>>}), Dug({<<0, 0>>, <<3, 1>>})}

\* puzzle.map(row => row.map(cell => cell !== 0))
MaskOfSolution(p) == [r \in Idx |-> [c \in Idx |-> TRUE]]
MaskOf(p) == [r \in Idx |-> [c \in Idx |-> p[r][c] # 0]]

\* renderEmptyBoard()
EmptyRender ==
  [board |-> createEmptyBoard, mask |-> [r \in Idx |-> [c \in Idx |-> FALSE]]]

\* globalState of the event bus module.
FreshGlobalState == [isResetting |-> FALSE, isPaused |-> FALSE]

\* if (getGlobalState('isResetting')) return;
ResetNeverSkipped(state) == FALSE
ResetSkipped(state) == state.isResetting

\* The object handed to saveGameState; readUserBoard() gives what is shown.
\* A property the caller does not write reads as undefined after loading.
SavedState(elapsedTime, elapsed, isPaused) ==
  [solution |-> solution, puzzle |-> puzzle, givenMask |-> givenMask,
   currentBoard |-> rendered.board, elapsedTime |-> elapsedTime,
   elapsed |-> elapsed, isPaused |-> isPaused]

\* The player types digit 1 or 2 into the first cell that is not given.
UserInput ==
  /\ puzzle # NoGrid
  /\ ~globalState.isPaused
  /\ findEmpty(puzzle) # << >>
  /\ LET p == findEmpty(puzzle)
     IN \E d \in 1 .. 2 :
          rendered' = [rendered EXCEPT !.board[p[1]][p[2]] = d]
  /\ UNCHANGED <<solution, puzzle, givenMask, saved, globalState, loading,
                 timeouts, resetsSeen, resetRuns, resetToasts, busy, effects, timerVars,
                 busVars, engineVars, cloudVars>>

\* No game:new has been handled to its end.
NoEffects == [generatorCalls |-> 0, threw |-> FALSE, emitted |-> << >>]

\* setLoading: the catch block of handleNewGame calls setLoading(false).
StaysLoading(l) == l
AfterCatch(l) == FALSE

\* game:new, handleNewGame up to "await new Promise(r => setTimeout(r, 100))".
HandleNewGame ==
  /\ loading < MaxLoading
  /\ saved' = NoSave
  /\ globalState' = [globalState EXCEPT !.isPaused = FALSE]
  /\ timer' = stopTimer(timer, now)
  /\ loading' = loading + 1
  /\ busy' = TRUE
  /\ effects' = NoEffects
  /\ UNCHANGED <<solution, puzzle, givenMask, rendered, timeouts, resetsSeen,
                 resetRuns, resetToasts, now, ranFor, busVars, engineVars, cloudVars>>

\* handleNewGame after the await: generateFullBoard and
\* digHolesWithValidation give a solution and a puzzle, or generateFullBoard
\* throws and the catch block runs.
NewGameReady ==
  /\ loading > 0
  /\ loading' = loading - 1
  /\ \/ \E p \in PuzzlePool :
          /\ solution' = BaseSolution
          /\ puzzle' = p
          /\ givenMask' = MaskOf(p)
          /\ rendered' = [board |-> p, mask |-> givenMask']
          /\ timer' = startTimer(resetTimer(timer, now), now)
          /\ ranFor' = 0
          /\ busy' = FALSE
          /\ effects' = [generatorCalls |-> 1, threw |-> FALSE,
                         emitted |-> <<"game:started">>]
     \/ /\ UNCHANGED <<solution, puzzle, givenMask, rendered, timer, ranFor>>
        /\ busy' = AfterCatch(busy)
        /\ effects' = [generatorCalls |-> 1, threw |-> TRUE,
                       emitted |-> <<"error:generation">>]
  /\ UNCHANGED <<saved, globalState, timeouts, resetsSeen, resetRuns,
                 resetToasts, now, busVars, engineVars, cloudVars>>

\* game:reset, handleReset.
HandleReset ==
  /\ resetsSeen < MaxResets
  /\ IF puzzle = NoGrid
     THEN UNCHANGED <<rendered, globalState, timeouts, resetsSeen, resetRuns,
                      timer, ranFor>>
     ELSE /\ resetsSeen' = resetsSeen + 1
          /\ IF ResetSkipped(globalState)
             THEN UNCHANGED <<rendered, globalState, timeouts, resetRuns,
                              timer, ranFor>>
             ELSE /\ globalState' = [globalState EXCEPT !.isResetting = TRUE]
                  /\ rendered' = [board |-> puzzle, mask |-> givenMask]
                  /\ timer' = startTimer(resetTimer(stopTimer(timer, now), now),
                                         now)
                  /\ ranFor' = 0
                  /\ timeouts' = timeouts + 1
                  /\ resetRuns' = resetRuns + 1
  /\ UNCHANGED <<solution, puzzle, givenMask, saved, loading, resetToasts, busy,
                 effects, now,
                 busVars, engineVars, cloudVars>>

\* The timeout of handleReset: showToast('game reset'), isResetting = false.
ResetToast ==
  /\ timeouts > 0
  /\ timeouts' = timeouts - 1
  /\ resetToasts' = resetToasts + 1
  /\ globalState' = [globalState EXCEPT !.isResetting = FALSE]
  /\ UNCHANGED <<solution, puzzle, givenMask, rendered, saved, loading,
                 resetsSeen, resetRuns, busy, effects, timerVars, busVars,
                 engineVars, cloudVars>>

\* game:pause, handlePause.
HandlePause ==
  /\ puzzle # NoGrid
  /\ ~globalState.isPaused
  /\ globalState' = [globalState EXCEPT !.isPaused = TRUE]
  /\ timer' = pauseTimer(timer, now)
  /\ saved' = SavedState(getElapsedTime(timer', now), Undefined, TRUE)
  /\ UNCHANGED <<solution, puzzle, givenMask, rendered, loading, timeouts,
                 resetsSeen, resetRuns, resetToasts, busy, effects, now, ranFor, busVars,
                 engineVars, cloudVars>>

\* game:resume, handleResume.
HandleResume ==
  /\ puzzle # NoGrid
  /\ globalState.isPaused
  /\ globalState' = [globalState EXCEPT !.isPaused = FALSE]
  /\ timer' = resumeTimer(timer, now)
  /\ saved' = SavedState(getElapsedTime(timer', now), Undefined, FALSE)
  /\ UNCHANGED <<solution, puzzle, givenMask, rendered, loading, timeouts,
                 resetsSeen, resetRuns, resetToasts, busy, effects, now, ranFor, busVars,
                 engineVars, cloudVars>>

\* The interval of the timer emits timer:tick and handleTimerTick saves the
\* game ("elapsed" is saved, "elapsedTime" is not) when 5 s have passed since
\* the last save.
HandleTimerTick ==
  /\ timer.timerInterval
  /\ puzzle # NoGrid
  /\ ~globalState.isPaused
  /\ saved' = SavedState(Undefined, Minus(now, timer.startTime), FALSE)
  /\ UNCHANGED <<solution, puzzle, givenMask, rendered, globalState, loading,
                 timeouts, resetsSeen, resetRuns, resetToasts, busy, effects, timerVars,
                 busVars, engineVars, cloudVars>>

\* board:complete, handleBoardComplete with a correct board: the saved state
\* is cleared and the timer stopped.  What it does with the record from
\* saveRecord on is followed by CompleteGame and the Upload actions.
HandleBoardComplete ==
  /\ solution # NoGrid
  /\ saved' = NoSave
  /\ globalState' = [globalState EXCEPT !.isPaused = FALSE]
  /\ timer' = stopTimer(timer, now)
  /\ UNCHANGED <<solution, puzzle, givenMask, rendered, loading, timeouts,
                 resetsSeen, resetRuns, resetToasts, busy, effects, now, ranFor, busVars,
                 engineVars, cloudVars>>

\* The page is loaded again: the modules start afresh, pending timeouts are
\* gone, init() renders the empty board and checkAndRestoreGameState() runs.
\* A saved state older than 24 hours is cleared.
PageLoad ==
  /\ loading' = 0
  /\ timeouts' = 0
  /\ resetsSeen' = 0
  /\ resetRuns' = 0
  /\ resetToasts' = 0
  /\ busy' = FALSE
  /\ effects' = NoEffects
  /\ ranFor' = 0
  /\ \/ /\ saved = NoSave
        /\ UNCHANGED saved
        /\ solution' = NoGrid /\ puzzle' = NoGrid /\ givenMask' = NoGrid
        /\ rendered' = EmptyRender
        /\ globalState' = FreshGlobalState
        /\ timer' = FreshTimer
     \/ /\ saved # NoSave
        /\ saved' = NoSave
        /\ solution' = NoGrid /\ puzzle' = NoGrid /\ givenMask' = NoGrid
        /\ rendered' = EmptyRender
        /\ globalState' = FreshGlobalState
        /\ timer' = FreshTimer
     \/ /\ saved # NoSave
        /\ UNCHANGED saved
        /\ solution' = saved.solution
        /\ puzzle' = saved.puzzle
        /\ givenMask' = saved.givenMask
        /\ rendered' = [board |-> saved.currentBoard, mask |-> saved.givenMask]
        /\ globalState' = [FreshGlobalState EXCEPT !.isPaused = saved.isPaused]
        /\ timer' = IF saved.isPaused
                    THEN setElapsedTime(FreshTimer, saved.elapsedTime)
                    ELSE startTimerWithElapsed(FreshTimer, now,
                                               saved.elapsedTime)
  /\ UNCHANGED <<now, busVars, engineVars, cloudVars>>

GameNext ==
  \/ UserInput \/ HandleNewGame \/ NewGameReady \/ HandleReset \/ ResetToast
  \/ HandlePause \/ HandleResume \/ HandleTimerTick \/ HandleBoardComplete
  \/ PageLoad
  \/ (now < Epoch + MaxGameClock /\ Tick)

\* ------------------------------------------- the records in localStorage
\* Two of the difficulties 'easy', 'medium', 'hard', 'expert'.
Difficulties == {"easy", "medium"}
\* The largest time saved, and how many records are saved.
MaxTime == 2
MaxSaves == 3

\* best: null
NoBest == -1

\* rec[difficulty] = { best: null, history: [] }; a difficulty without an
\* entry reads the same way wherever the code looks at it.
EmptyEntry == [best |-> NoBest, history |-> << >>]
NoRecords == [d \in Difficulties |-> EmptyEntry]

\* No record:saved event has been emitted.
NoEvent == [difficulty |-> "", time |-> NoBest, isBest |-> FALSE]

\* const isBest = !rec[difficulty].best || timeMs < rec[difficulty].best
IsBest(best, timeMs) == best = NoBest \/ best = 0 \/ timeMs < best

\* saveRecord(difficulty, timeMs) at Date.now() = at, on the records rec.
saveRecord(rec, difficulty, timeMs, at) ==
  [rec EXCEPT
     ![difficulty] =
       [best |-> IF IsBest(@.best, timeMs) THEN timeMs ELSE @.best,
        history |-> Append(@.history,
                           [time |-> timeMs, at |-> at, synced |-> FALSE])]]

\* The data of the record:saved event of that call.
RecordSaved(rec, difficulty, timeMs) ==
  [difficulty |-> difficulty, time |-> timeMs,
   isBest |-> IsBest(rec[difficulty].best, timeMs)]

\* markAllAsSynced() on the records rec.
markAllAsSynced(rec) ==
  [d \in Difficulties |->
     [rec[d] EXCEPT
        !.history = [i \in 1 .. Len(@) |-> [@[i] EXCEPT !.synced = TRUE]]]]

\* A caller calls saveRecord(d, t); time passes before the next call.
SaveRecord ==
  /\ now < Epoch + MaxSaves
  /\ \E d \in Difficulties : \E t \in 0 .. MaxTime :
       /\ records' = saveRecord(records, d, t, now)
       /\ lastSaved' = RecordSaved(records, d, t)
  /\ now' = now + 1
  /\ UNCHANGED <<timer, ranFor, syncVars, counterVars, busVars, gameVars,
                 engineVars>>

StorageNext == SaveRecord

\* ------------------------------------ the synchronisation with Supabase
\* The values Date.now() takes when records are saved, and how many batch
\* inserts are followed at once.
Ats == Epoch .. (Epoch + MaxSaves)
MaxSyncs == 2
\* How many games are completed.
MaxGames == 2

\* The remote table games is empty.
NoRows == [a \in Ats |-> 0]

\* seq without its element i
RemoveAt(seq, i) == SubSeq(seq, 1, i - 1) \o SubSeq(seq, i + 1, Len(seq))

\* rowsToInsert of syncLocalRecordsToSupabase: the records with !h.synced,
\* named by their time stamp.
RowsToInsert(rec) ==
  UNION {{rec[d].history[i].at :
            i \in {j \in 1 .. Len(rec[d].history) : ~rec[d].history[j].synced}} :
         d \in Difficulties}

\* supabase.from('games').insert(rows) has succeeded.
Inserted(table, rows) == [a \in Ats |-> table[a] + IF a \in rows THEN 1 ELSE 0]

\* lastRecord.synced = true on the records just loaded.
MarkLast(rec, difficulty) ==
  IF rec[difficulty].history = << >> THEN rec
  ELSE [rec EXCEPT ![difficulty].history[Len(rec[difficulty].history)].synced =
                     TRUE]

\* handleBoardComplete with a correct board, from saveRecord on: the record
\* is saved and uploadRecordOnComplete waits for getCurrentSession().
CompleteGame ==
  /\ now < Epoch + MaxGames
  /\ \E d \in Difficulties :
       /\ records' = saveRecord(records, d, 1, now)
       /\ lastSaved' = RecordSaved(records, d, 1)
       /\ uploads' = Append(uploads, [difficulty |-> d, at |-> now,
                                      pc |-> "session", loaded |-> NoRecords])
  /\ now' = now + 1
  /\ UNCHANGED <<timer, ranFor, games, syncRuns, counterVars, busVars,
                 gameVars, engineVars>>

\* getCurrentSession() answers: without a session the upload ends with
\* false; with one, uploadSingleRecord sends its insert.
UploadSession ==
  /\ \E i \in 1 .. Len(uploads) :
       /\ uploads[i].pc = "session"
       /\ \/ uploads' = RemoveAt(uploads, i)
          \/ uploads' = [uploads EXCEPT ![i].pc = "insert"]
  /\ UNCHANGED <<storageVars, games, syncRuns, counterVars, busVars,
                 timerVars, gameVars, engineVars>>

\* The insert of uploadSingleRecord answers: with an error the upload ends
\* with false; otherwise the row is in the table and the best score is
\* looked up.
UploadInserted ==
  /\ \E i \in 1 .. Len(uploads) :
       /\ uploads[i].pc = "insert"
       /\ \/ /\ uploads' = RemoveAt(uploads, i)
             /\ UNCHANGED games
          \/ /\ uploads' = [uploads EXCEPT ![i].pc = "best"]
             /\ games' = Inserted(games, {uploads[i].at})
  /\ UNCHANGED <<storageVars, syncRuns, counterVars, busVars, timerVars,
                 gameVars, engineVars>>

\* uploadRecordOnComplete returns true: handleBoardComplete loads the
\* records, sets synced on the last record of the difficulty and asks for
\* the module that holds saveRecords.
UploadMark ==
  /\ \E i \in 1 .. Len(uploads) :
       /\ uploads[i].pc = "best"
       /\ uploads' = [uploads EXCEPT
                        ![i].pc = "save",
                        ![i].loaded = MarkLast(records, uploads[i].difficulty)]
  /\ UNCHANGED <<storageVars, games, syncRuns, counterVars, busVars,
                 timerVars, gameVars, engineVars>>

\* import(...).then: saveRecords(records) writes the records loaded before.
UploadSave ==
  /\ \E i \in 1 .. Len(uploads) :
       /\ uploads[i].pc = "save"
       /\ records' = uploads[i].loaded
       /\ uploads' = RemoveAt(uploads, i)
  /\ UNCHANGED <<lastSaved, games, syncRuns, counterVars, busVars, timerVars,
                 gameVars, engineVars>>

\* auth:login or sync:manual-trigger: syncLocalRecordsToSupabase collects
\* the records that are not synced and sends the batch insert; with none it
\* returns.
SyncStart ==
  /\ Len(syncRuns) < MaxSyncs
  /\ RowsToInsert(records) # {}
  /\ syncRuns' = Append(syncRuns, RowsToInsert(records))
  /\ UNCHANGED <<storageVars, games, uploads, counterVars, busVars, timerVars,
                 gameVars, engineVars>>

\* The batch insert answers: with an error nothing is marked; otherwise the
\* rows are in the table and markAllAsSynced() runs.
SyncInserted ==
  /\ \E i \in 1 .. Len(syncRuns) :
       /\ syncRuns' = RemoveAt(syncRuns, i)
       /\ \/ UNCHANGED <<games, records>>
          \/ /\ games' = Inserted(games, syncRuns[i])
             /\ records' = markAllAsSynced(records)
  /\ UNCHANGED <<lastSaved, uploads, counterVars, busVars, timerVars,
                 gameVars, engineVars>>

SyncNext ==
  \/ CompleteGame \/ UploadSession \/ UploadInserted \/ UploadMark
  \/ UploadSave \/ SyncStart \/ SyncInserted

\* ------------------------------------------------ the global game counter
\* How many increment requests are made.
MaxRequests == 4

\* (parseInt(currentCount) || 0) + 1; a key that is absent reads as 0.
NewCount(currentCount) == currentCount + 1

\* POST /api/counter/increment arrives: onRequest sends its KV get.
Increment ==
  /\ Len(requests) + Len(responses) < MaxRequests
  /\ requests' = Append(requests, [pc |-> "get", newCount |-> 0])
  /\ UNCHANGED <<kv, responses, storageVars, syncVars, busVars, timerVars,
                 gameVars, engineVars>>

\* The get answers: newCount is computed and the put is sent; or KV fails
\* and the request ends with status 500.
KvGet ==
  /\ \E i \in 1 .. Len(requests) :
       /\ requests[i].pc = "get"
       /\ \/ requests' = [requests EXCEPT ![i] = [pc |-> "put",
                                                  newCount |-> NewCount(kv)]]
          \/ requests' = RemoveAt(requests, i)
  /\ UNCHANGED <<kv, responses, storageVars, syncVars, busVars, timerVars,
                 gameVars, engineVars>>

\* The put is done and the response { count: newCount } is returned.
KvPut ==
  /\ \E i \in 1 .. Len(requests) :
       /\ requests[i].pc = "put"
       /\ kv' = requests[i].newCount
       /\ responses' = Append(responses, requests[i].newCount)
       /\ requests' = RemoveAt(requests, i)
  /\ UNCHANGED <<storageVars, syncVars, busVars, timerVars, gameVars,
                 engineVars>>

CounterNext == Increment \/ KvGet \/ KvPut

\* ------------------------------------------------------------- the states
\* The caller holds grid g: its rows are the first rows of the heap.
Holding(g) ==
  /\ heap = [i \in 1 .. GRID_SIZE |-> g[i - 1]]
  /\ input = [r \in Idx |-> r + 1]
  /\ given = g

GenIdle ==
  /\ genBoard = << >>
  /\ nums = << >>
  /\ genStack = << >>
  /\ genPc = "idle"

CountIdle ==
  /\ b = << >>
  /\ count = 0
  /\ cStack = << >>
  /\ cPc = "idle"
  /\ cCaller = "none"

SolveIdle ==
  /\ solveB = << >>
  /\ sStack = << >>
  /\ sPc = "idle"
  /\ solveRet = Null

DigIdle ==
  /\ board = << >>
  /\ positions = << >>
  /\ shuffleI = 0
  /\ idx = 0
  /\ holes = 0
  /\ backup = 0
  /\ dPc = "idle"

ClientIdle ==
  /\ main = "init"
  /\ counted = -1
  /\ probeRet = TRUE
  /\ unique = FALSE

NoProbe == [r |-> 0, c |-> 0, value |-> 0]

\* ------------------------------------------------- the page before use
BusIdle ==
  /\ events = << >>
  /\ busStack = << >>
  /\ nextOnce = 1
  /\ onceCalls = [k \in 1 .. MaxOnce |-> 0]

TimerIdle ==
  /\ now = Epoch
  /\ timer = FreshTimer
  /\ ranFor = 0

\* The module state of main; shown is what the board element displays.
GameLoaded(shown) ==
  /\ solution = NoGrid
  /\ puzzle = NoGrid
  /\ givenMask = NoGrid
  /\ rendered = shown
  /\ saved = NoSave
  /\ globalState = FreshGlobalState
  /\ loading = 0
  /\ timeouts = 0
  /\ resetsSeen = 0
  /\ resetRuns = 0
  /\ resetToasts = 0
  /\ busy = FALSE
  /\ effects = NoEffects

\* The modules are loaded and init() has not run: nothing is rendered.
GameIdle == GameLoaded(NoGrid)

StorageIdle ==
  /\ records = NoRecords
  /\ lastSaved = NoEvent

SyncIdle ==
  /\ games = NoRows
  /\ syncRuns = << >>
  /\ uploads = << >>

CounterIdle ==
  /\ kv = 0
  /\ requests = << >>
  /\ responses = << >>

CloudIdle == StorageIdle /\ SyncIdle /\ CounterIdle

\* The page while only the Sudoku core is exercised.
UiIdle ==
  /\ dedupe = TRUE
  /\ behaviour = [f \in Fns |-> "return"]
  /\ BusIdle /\ TimerIdle /\ GameIdle /\ CloudIdle

\* generateFullBoard() is called: board = createEmptyBoard(), nums = [1..9].
GenInitWith(sources) ==
  /\ rnd \in sources
  /\ genBoard = createEmptyBoard
  /\ nums = [i \in Idx |-> i + 1]
  /\ genStack = << >>
  /\ genPc = "start"
  /\ heap = << >>
  /\ input = << >>
  /\ given = << >>
  /\ limit = 0
  /\ holesTarget = 0
  /\ probe = NoProbe
  /\ CountIdle /\ SolveIdle /\ DigIdle /\ ClientIdle
  /\ UiIdle

GenInit == GenInitWith(LcgSources(MaxSeed) \cup {Identity})
SpecGen == GenInit /\ [][GenNext]_vars

GenInitAdversary == GenInitWith({Identity, Adversary})
SpecGenAdversary == GenInitAdversary /\ [][GenNext]_vars

\* A caller counts the completions of a grid, then solves it.
SolverInit ==
  /\ rnd = Identity
  /\ \E g \in EditGrids : Holding(g)
  /\ limit \in 0 .. MaxLimit
  /\ holesTarget = 0
  /\ probe = NoProbe
  /\ GenIdle /\ CountIdle /\ SolveIdle /\ DigIdle /\ ClientIdle
  /\ UiIdle

SolverNext ==
  \/ ClientCount \/ CountTry \/ CountAfter \/ CountLoopEnd \/ ClientCounted
  \/ ClientSolve \/ SolveTry \/ SolveReturnFalse

SpecSolver == SolverInit /\ [][SolverNext]_vars

\* A caller asks isValidPlacement about a cell and a value.
ProbeInit ==
  /\ rnd = Identity
  /\ \E g \in EditGrids : Holding(g)
  /\ probe \in [r : Idx, c : Idx, value : 0 .. 9]
  /\ limit = 0
  /\ holesTarget = 0
  /\ GenIdle /\ CountIdle /\ SolveIdle /\ DigIdle /\ ClientIdle
  /\ UiIdle

ProbeNext == ClientProbe

SpecProbe == ProbeInit /\ [][ProbeNext]_vars

\* A caller digs holes into a complete legal solution, then counts the
\* completions of the puzzle it got.
DigInitWith(sources, targets) ==
  /\ rnd \in sources
  /\ Holding(BaseSolution)
  /\ holesTarget \in targets
  /\ limit = 0
  /\ probe = NoProbe
  /\ GenIdle /\ CountIdle /\ SolveIdle /\ DigIdle /\ ClientIdle
  /\ UiIdle

DigNext ==
  \/ DigCall \/ DigShuffle \/ DigStep \/ DigResume \/ DigReturn
  \/ CountTry \/ CountAfter \/ CountLoopEnd
  \/ ClientVerify \/ ClientCounted

\* Targets from none to MaxHoles under every stream, and a target no grid
\* can reach under the stream "adversary".  The code runs to completion
\* once called: every enabled step is eventually taken.
DigInit ==
  \/ DigInitWith(LcgSources(MaxDigSeed) \cup {Adversary}, -1 .. MaxHoles)
  \/ DigInitWith({Adversary}, {NumCells + 1})

SpecDig == DigInit /\ [][DigNext]_vars /\ WF_vars(DigNext)

\* ------------------------------------------------------------- properties
\* What the claims speak of, stated without the code's search.
Value(grid, p) == grid[p \div GRID_SIZE][p % GRID_SIZE]

SameBlock(p, q) ==
  /\ (p \div GRID_SIZE) \div BLOCK_SIZE = (q \div GRID_SIZE) \div BLOCK_SIZE
  /\ (p % GRID_SIZE) \div BLOCK_SIZE = (q % GRID_SIZE) \div BLOCK_SIZE

\* The cells other than p in the row, the column or the block of p.
Peers ==
  [p \in Cells |->
     {q \in Cells \ {p} :
        \/ q \div GRID_SIZE = p \div GRID_SIZE
        \/ q % GRID_SIZE = p % GRID_SIZE
        \/ SameBlock(p, q)}] @@ << >>

\* The nine rows, the nine columns and the nine blocks.
Units ==
  {{p \in Cells : p \div GRID_SIZE = r} : r \in Idx}
    \cup {{p \in Cells : p % GRID_SIZE = c} : c \in Idx}
    \cup {{p \in Cells : SameBlock(p, q)} : q \in Cells}

\* Every row, column and block holds each of 1..9 exactly once.
IsCompleteLegal(grid) ==
  \A u \in Units : \A d \in Digits :
    Cardinality({p \in u : Value(grid, p) = d}) = 1

Holes(grid) == {p \in Cells : Value(grid, p) = 0}

Fill(grid, f) ==
  [r \in Idx |-> [c \in Idx |->
     IF grid[r][c] = 0 THEN f[GRID_SIZE * r + c] ELSE grid[r][c]]]

\* The ways to fill the empty cells of grid that give a legal full grid.
Completions(grid) ==
  {f \in [Holes(grid) -> Digits] : IsCompleteLegal(Fill(grid, f))}

\* The completion that is least at the first cell where two of them differ.
FirstCompletion(grid) ==
  CHOOSE f \in Completions(grid) :
    \A g \in Completions(grid) :
      f = g \/ \E p \in Holes(grid) :
                 /\ f[p] < g[p]
                 /\ \A q \in Holes(grid) : q < p => f[q] = g[q]

Min(x, y) == IF x <= y THEN x ELSE y

\* The input BaseSolution is what generateFullBoard returns under the
\* stream "identity".
BaseSolutionIsGenerated ==
  (genPc = "returned" /\ rnd.kind = "identity") => genBoard = BaseSolution

\* C1: the puzzle digHolesWithValidation returns for a complete legal
\* solution and any target has exactly one completion according to
\* countSolutions(puzzle, 2), whatever the order of the positions.
C1_DugPuzzleIsUnique == main = "verified" => counted = 1

C1_Witness == main = "verified" /\ holes >= 4 /\ idx > holes

\* C2: the grid generateFullBoard returns has no empty cell and every row,
\* column and block holds each of 1..9 exactly once.
C2_GeneratedBoardIsCompleteLegal ==
  genPc = "returned" => IsCompleteLegal(genBoard)

C2_Witness == genPc = "returned" /\ rnd.kind = "lcg"

\* C3: generateFullBoard never reaches the state in which the outermost
\* backtrack call has returned false and the error is thrown.
C3_GeneratorNeverThrows == genPc # "thrown"

\* C4: countSolutions(g, limit) returns min(limit, N), N the number of legal
\* full grids that agree with g on its filled cells, for every grid g,
\* conflicting or not, and every limit >= 0.
C4_CountIsCappedNumberOfCompletions ==
  (main = "counting" /\ cPc = "done") =>
    count = Min(limit, Cardinality(Completions(given)))

\* A step of countSolutions that writes a digit into an empty cell of b.
PlacesDigit ==
  \E r \in Idx : \E c \in Idx : heap[b[r]][c] = 0 /\ heap'[b[r]][c] # 0

\* C5: while countSolutions runs the counter never exceeds limit, no digit
\* is placed into b once the counter equals limit, and the value returned
\* lies in 0..limit.
C5_CounterIsCapped ==
  /\ [](cPc # "idle" => count \in 0 .. limit)
  /\ [][(cPc \in {"loop", "after"} /\ count >= limit) => ~PlacesDigit]_vars

C5_Witness ==
  cPc = "after" /\ limit >= 1 /\ count = limit /\ Len(cStack) >= 2

\* C6: when countSolutions(g, 2) is 1, solvePuzzle(g) returns a grid, not
\* null, that is full, has every row, column and block a permutation of
\* 1..9, and equals g on every filled cell of g.
C6_SolverAgreesWithCounter ==
  (sPc = "done" /\ limit = UniquenessLimit /\ counted = 1) =>
    /\ ~solveRet.null
    /\ IsCompleteLegal(Contents(heap, solveRet.grid))
    /\ \A p \in Cells \ Holes(given) :
         Value(Contents(heap, solveRet.grid), p) = Value(given, p)

\* C7: solvePuzzle(g) returns null exactly when g has no legal completion,
\* and otherwise the first completion in row-major, ascending-digit order.
C7_SolverReturnsFirstCompletion ==
  sPc = "done" =>
    /\ solveRet.null <=> Completions(given) = {}
    /\ ~solveRet.null =>
         /\ Completions(given) # {}
         /\ Contents(heap, solveRet.grid) = Fill(given, FirstCompletion(given))

\* C8: for a value in 1..9 isValidPlacement(g, r, c, value) is false exactly
\* when a cell other than (r, c) in its row, column or block holds the
\* value; for the value 0 it is true.
C8_PlacementIsPeerCheck ==
  main = "probed" =>
    IF probe.value = 0 THEN probeRet = TRUE
    ELSE (probeRet = FALSE) <=>
           \E q \in Peers[GRID_SIZE * probe.r + probe.c] :
             Value(given, q) = probe.value

C8_Witness ==
  /\ main = "probed"
  /\ probe.value # 0
  /\ given[probe.r][probe.c] = probe.value
  /\ probeRet = TRUE

\* C9: for a target k >= 0, also one beyond the cells that can be removed
\* and beyond 81, digHolesWithValidation returns, and the grid it returns
\* has at most k empty cells.
C9_DiggerReturnsAtMostTargetHoles ==
  /\ []((dPc = "returned" /\ holesTarget >= 0) =>
          Cardinality(Holes(Contents(heap, board))) <= holesTarget)
  /\ <>(dPc = "returned")

C9_Witness ==
  /\ dPc = "returned"
  /\ holesTarget > NumCells
  /\ idx = NumCells
  /\ Cardinality(Holes(Contents(heap, board))) < holesTarget

\* C10: digHolesWithValidation leaves every cell of the caller's grid as
\* it was, on every path, and the grid it returns shares no row with it.
C10_DiggerLeavesSolutionAlone ==
  /\ main # "init" => Contents(heap, input) = given
  /\ dPc = "returned" => \A r \in Idx : \A q \in Idx : board[r] # input[q]

C10_Witness ==
  dPc = "returned" /\ main = "dug" /\ holes >= 4 /\ idx > holes /\ idx < NumCells

\* C11: countSolutions(g, limit) and solvePuzzle(g) leave every cell of the
\* caller's grid g as it was, whatever they return; the placements and the
\* resets happen on rows that g does not hold.
C11_SearchLeavesCallerGridAlone ==
  /\ main \in {"counting", "counted", "solving"} =>
       Contents(heap, input) = given
  /\ (main = "counting" /\ cPc # "idle") =>
       \A r \in Idx : \A q \in Idx : b[r] # input[q]
  /\ (main = "solving" /\ sPc # "idle") =>
       \A r \in Idx : \A q \in Idx : solveB[r] # input[q]

C11_Witness ==
  /\ main = "solving"
  /\ sPc = "done"
  /\ ~solveRet.null
  /\ counted >= 2
  /\ Cardinality(Holes(given)) >= 2

\* ------------------------------------------------ grids of a wrong shape
\* Grid g with row r cut to its first len cells.
Truncated(g, r, len) ==
  [i \in Idx |-> [j \in Idx |->
     IF i = r /\ j >= len THEN Undefined ELSE g[i][j]]]

\* Every row of g has its 9 cells.
WellFormed(g) == \A r \in Idx : \A c \in Idx : g[r][c] # Undefined

\* A full grid and a grid with four empty cells, each as it is and with its
\* first or last row cut to 8 or 7 cells.
ShapeBases ==
  {BaseSolution, Edited([p \in EditCells |-> 0])}

ShapeGrids ==
  {Truncated(g, r, len) : g \in ShapeBases, r \in {0, 8}, len \in 7 .. 9}

\* A caller passes a grid, of the right shape or not, to countSolutions or to
\* digHolesWithValidation.
ShapeInit ==
  /\ rnd = Adversary
  /\ \E g \in ShapeGrids : Holding(g)
  /\ limit \in 1 .. UniquenessLimit
  /\ holesTarget \in 0 .. 2
  /\ probe = NoProbe
  /\ GenIdle /\ CountIdle /\ SolveIdle /\ DigIdle /\ ClientIdle
  /\ UiIdle

ShapeNext ==
  \/ ClientCount \/ ClientCounted
  \/ CountTry \/ CountAfter \/ CountLoopEnd
  \/ DigCall \/ DigShuffle \/ DigStep \/ DigResume \/ DigReturn

SpecShape == ShapeInit /\ [][ShapeNext]_vars

\* C12: a grid with a row that does not have 9 cells is rejected by
\* countSolutions and by digHolesWithValidation: no count and no puzzle is
\* returned for it.
C12_MalformedGridIsRejected ==
  ~WellFormed(given) => main \notin {"counted", "dug"}

\* ------------------------------------------------------ hasUniqueSolution
\* A caller calls countSolutions(g, 2), then hasUniqueSolution(g).
UniqueInit ==
  /\ rnd = Identity
  /\ \E g \in EditGrids : Holding(g)
  /\ limit = UniquenessLimit
  /\ holesTarget = 0
  /\ probe = NoProbe
  /\ GenIdle /\ CountIdle /\ SolveIdle /\ DigIdle /\ ClientIdle
  /\ UiIdle

UniqueNext ==
  \/ ClientCount \/ ClientCounted \/ ClientUnique \/ UniqueReturn
  \/ CountTry \/ CountAfter \/ CountLoopEnd

SpecUnique == UniqueInit /\ [][UniqueNext]_vars

\* C13: for every grid g, hasUniqueSolution(g) is true exactly when
\* countSolutions(g, 2) returns 1.
C13_UniqueIffCountIsOne ==
  main = "asked" => (unique <=> counted = 1)

C13_Witness ==
  /\ main = "asked"
  /\ counted = 2
  /\ ~unique

\* ------------------------------------------------ the concrete scenarios
\* BaseSolution with (0,4) and (0,8) empty, (2,7) = x and (5,8) = y.  Row 0
\* then lacks 5 and 9; block 1 holds a 9; x and y decide whether cell (0,8)
\* sees a 5 or a 9 in its block and its column.
RowGrid(x, y) ==
  [r \in Idx |-> [c \in Idx |->
     CASE r = 0 /\ c \in {4, 8} -> 0
       [] r = 2 /\ c = 7 -> x
       [] r = 5 /\ c = 8 -> y
       [] OTHER -> BaseSolution[r][c]]]

RowGrids == {RowGrid(x, y) : x \in {1, 5, 9}, y \in {1, 5, 9}}

\* A caller counts the completions of the all-zero grid or of a RowGrid.
ScenarioInit ==
  /\ rnd = Identity
  /\ \E g \in {createEmptyBoard} \cup RowGrids : Holding(g)
  /\ limit \in 0 .. MaxLimit
  /\ holesTarget = 0
  /\ probe = NoProbe
  /\ GenIdle /\ CountIdle /\ SolveIdle /\ DigIdle /\ ClientIdle
  /\ UiIdle

ScenarioNext ==
  \/ ClientCount \/ ClientCounted
  \/ CountTry \/ CountAfter \/ CountLoopEnd

SpecScenario == ScenarioInit /\ [][ScenarioNext]_vars

\* C14: for the all-zero grid countSolutions(grid, 2) returns 2; the count
\* goes up one completion at a time and the search stops at the second.
C14_EmptyGridCountsTwo ==
  /\ [](given = createEmptyBoard /\ limit = 2 /\ main = "counted" =>
          counted = 2)
  /\ [][given = createEmptyBoard /\ limit = 2 /\ main = "counting" =>
          /\ count' \in {count, count + 1}
          /\ count = 2 => cPc' \in {"after", "done", "idle"}]_vars

C14_Witness ==
  given = createEmptyBoard /\ limit = 2 /\ main = "counted" /\ counted = 2

\* The digits no other cell of the row, column or block of p holds.
Accepted(grid, p) ==
  {n \in Digits : \A q \in Peers[p] : Value(grid, q) # n}

\* Exactly two empty cells, in the same row, each accepting 5 and no other
\* digit.
TwoCellsWantFive(grid) ==
  /\ Cardinality(Holes(grid)) = 2
  /\ \A p \in Holes(grid) : \A q \in Holes(grid) :
       p \div GRID_SIZE = q \div GRID_SIZE
  /\ \A p \in Holes(grid) : Accepted(grid, p) = {5}

\* C15: for a grid with exactly two empty cells, in one row, each of which
\* accepts digit 5 and nothing else, countSolutions returns 0.
C15_TwoFivesInARowCountZero ==
  (TwoCellsWantFive(given) /\ main = "counted") => counted = 0

C15_Witness ==
  TwoCellsWantFive(given) /\ main = "counted" /\ limit >= 1 /\ counted = 0

\* ------------------------------------------------------- the UI modules
\* The Sudoku core while only the page is exercised.
EngineIdle ==
  /\ rnd = Identity
  /\ heap = << >>
  /\ input = << >>
  /\ given = << >>
  /\ limit = 0
  /\ holesTarget = 0
  /\ probe = NoProbe
  /\ GenIdle /\ CountIdle /\ SolveIdle /\ DigIdle /\ ClientIdle

\* Callers use the event bus; each handler function returns, throws or
\* emits the event again.
BusInit ==
  /\ dedupe \in BOOLEAN
  /\ behaviour \in [Fns -> {"return", "throw", "emit"}]
  /\ BusIdle /\ TimerIdle /\ GameIdle /\ CloudIdle /\ EngineIdle

SpecBus == BusInit /\ [][BusNext]_vars

\* Callers use the timer while time passes.
TimerInit == UiIdle /\ EngineIdle

SpecTimer == TimerInit /\ [][TimerNext]_vars

\* The page is used: games are started, reset, paused, resumed, completed,
\* and the page is loaded again.
GameInit ==
  /\ dedupe = TRUE
  /\ behaviour = [f \in Fns |-> "return"]
  /\ BusIdle /\ TimerIdle /\ GameLoaded(EmptyRender) /\ CloudIdle
  /\ EngineIdle

SpecGame == GameInit /\ [][GameNext]_vars

\* C16: in every state of the game orchestrator, whenever puzzle is not
\* null, givenMask[r][c] is true exactly when puzzle[r][c] is not 0.
C16_GivenMaskMatchesPuzzle ==
  puzzle # NoGrid =>
    \A r \in Idx : \A c \in Idx : givenMask[r][c] <=> puzzle[r][c] # 0

\* A paused game with holes restored from localStorage by a page load.
C16_Witness ==
  /\ puzzle # NoGrid
  /\ Holes(puzzle) # {}
  /\ globalState.isPaused
  /\ timer.startTime = NoTime

\* C17: a game:reset delivered with a puzzle present while the toast of an
\* earlier reset is pending changes neither the timer nor the board and
\* schedules no toast; every executed reset shows exactly one toast, and
\* isResetting is true exactly while that toast is pending.
C17_OneToastPerReset ==
  /\ [](/\ resetRuns = resetToasts + timeouts
        /\ timeouts <= 1
        /\ globalState.isResetting <=> timeouts = 1)
  /\ [][(resetsSeen' = resetsSeen + 1 /\ globalState.isResetting) =>
          /\ timer' = timer
          /\ rendered' = rendered
          /\ timeouts' = timeouts
          /\ resetToasts' = resetToasts]_vars

C17_Witness ==
  /\ resetsSeen > resetRuns
  /\ resetRuns >= 1
  /\ resetToasts = resetRuns
  /\ ~globalState.isResetting

NoDuplicates(array) ==
  \A i \in 1 .. Len(array) : \A j \in 1 .. Len(array) :
    i # j => array[i] # array[j]

\* C18: after any sequence of on, off, once and clear calls a handler is at
\* most once in the array of an event, and so in the array an emit of that
\* event goes through.
C18_HandlerRegisteredOnce ==
  /\ \A e \in DOMAIN events : NoDuplicates(events[e])
  /\ \A k \in 1 .. Len(busStack) : NoDuplicates(busStack[k].array)

\* C19: the handler given to a once() call is invoked at most one time,
\* whatever it does and however many emits follow.
C19_OnceHandlerRunsOnce ==
  \A k \in 1 .. MaxOnce : onceCalls[k] <= 1

\* C20: getElapsedTime() is the time during which the timer was running
\* since the last resetTimer; time spent stopped or paused is not counted.
C20_ElapsedIsRunningTime ==
  getElapsedTime(timer, now) = ranFor

\* A timer that ran, was stopped or paused, and has stood still since.
C20_Witness ==
  /\ ~timer.running
  /\ ranFor >= 2
  /\ now - Epoch >= ranFor + 2
  /\ timer.pausedTime = ranFor

\* The elapsed time a saved state was written with.
ElapsedWhenSaved(s) ==
  IF s.elapsedTime # Undefined THEN s.elapsedTime ELSE s.elapsed

\* The elapsed time timer t counts on from at time clock: what it shows
\* once it runs.
ContinuesFrom(t, clock) == getElapsedTime(resumeTimer(t, clock), clock)

\* C21: when a state saved by pause, resume or the timer-tick autosave is
\* restored within 24 hours, the timer continues from the elapsed time the
\* game had when the state was saved, and solution, puzzle, givenMask and
\* the board shown equal the saved ones.
C21_RestoreContinuesSavedGame ==
  [][(PageLoad /\ puzzle' # NoGrid) =>
       /\ ContinuesFrom(timer', now') = ElapsedWhenSaved(saved)
       /\ solution' = saved.solution
       /\ puzzle' = saved.puzzle
       /\ givenMask' = saved.givenMask
       /\ rendered' = [board |-> saved.currentBoard, mask |-> saved.givenMask]]_vars

\* The digits a call of backtrack whose iterator is at index i still has to
\* read from order.
Remaining(order, i) == {order[j] : j \in (i + 1) .. (GRID_SIZE - 1)}

\* C22: a shuffle made by a deeper call of the generator's backtrack does not
\* change which digits an active position still has to try, so that each
\* position tests every digit 1..9 exactly once, in the order of its own
\* shuffle, before it reports failure.
C22_DeeperShufflesKeepRemainingDigits ==
  [][\A p \in 1 .. Len(genStack) :
       p <= Len(genStack') =>
         Remaining(nums', genStack'[p]) = Remaining(nums, genStack'[p])]_vars

\* The digits no peer of cell p holds in grid.
Free(grid, p) == Digits \ {Value(grid, q) : q \in Peers[p]}

RECURSIVE SumOf(_, _)
SumOf(f, D) ==
  IF D = {} THEN 0
  ELSE LET d == CHOOSE x \in D : TRUE IN f[d] + SumOf(f, D \ {d})

\* The number of legal full grids that agree with grid on its filled cells,
\* cut at cap: the empty cells are filled one by one.
RECURSIVE CompletionsUpTo(_, _)
CompletionsUpTo(grid, cap) ==
  IF Holes(grid) = {} THEN IF IsCompleteLegal(grid) THEN Min(1, cap) ELSE 0
  ELSE LET p == CHOOSE q \in Holes(grid) : \A o \in Holes(grid) : q <= o
       IN Min(cap,
              SumOf([d \in Free(grid, p) |->
                       CompletionsUpTo(
                         [grid EXCEPT ![p \div GRID_SIZE][p % GRID_SIZE] = d],
                         cap)],
                    Free(grid, p)))

\* The grid digHolesWithValidation works on.
WorkingGrid == Contents(heap, board)

\* The cell of the iteration under way.
DigCell == positions[idx]

\* C23: at the end of every iteration of the digger's loop the working grid
\* is the solution with exactly `holes` cells set to 0 and has exactly one
\* solution; an iteration whose count is not 1 leaves the working grid as it
\* was before the iteration: the removal touches one filled cell, nothing
\* changes while the count runs, and the cell gets its value back.
C23_LoopKeepsUniquePuzzle ==
  /\ [](dPc = "loop" =>
          /\ \A p \in Cells : Value(WorkingGrid, p) \in {0, Value(given, p)}
          /\ Cardinality(Holes(WorkingGrid)) = holes
          /\ CompletionsUpTo(WorkingGrid, UniquenessLimit) = 1)
  /\ [][/\ (dPc = "loop" /\ dPc' = "counting") =>
            /\ WorkingGrid[DigCell[1]][DigCell[2]] # 0
            /\ backup' = WorkingGrid[DigCell[1]][DigCell[2]]
            /\ WorkingGrid' =
                 [WorkingGrid EXCEPT ![DigCell[1]][DigCell[2]] = 0]
        /\ (dPc = "counting" /\ dPc' = "counting") =>
            WorkingGrid' = WorkingGrid /\ backup' = backup
        /\ (dPc = "counting" /\ dPc' = "loop" /\ count # 1) =>
            /\ holes' = holes
            /\ WorkingGrid' =
                 [WorkingGrid EXCEPT ![DigCell[1]][DigCell[2]] = backup]]_vars

\* An iteration whose count was 2 has ended after removals were accepted.
C23_Witness ==
  /\ dPc = "loop"
  /\ holes >= 4
  /\ idx > holes
  /\ count = 2
  /\ Value(WorkingGrid, 9 * positions[idx - 1][1] + positions[idx - 1][2]) # 0

\* A step in which digHolesWithValidation calls countSolutions.
DiggerCallsCounter == dPc = "loop" /\ dPc' = "counting"

\* C24: digHolesWithValidation returns; countSolutions is called only at an
\* index idx of 0..80 that no earlier call had (idx never goes back and is
\* advanced when the count returns), the positions are 81 different cells,
\* so that each is attempted at most once and there are at most 81 calls;
\* and no call is made once holes has reached the target.
C24_DiggerTerminatesWithin81Counts ==
  /\ <>(dPc = "returned")
  /\ [](dPc \in {"loop", "counting"} =>
          /\ DOMAIN positions = Cells
          /\ Cardinality({positions[i] : i \in Cells}) = NumCells)
  /\ [][/\ DiggerCallsCounter =>
            idx \in Cells /\ idx' = idx /\ holes < holesTarget
        /\ (dPc = "counting" /\ dPc' = "loop") => idx' = idx + 1
        /\ dPc \in {"loop", "counting"} => idx' >= idx]_vars

\* The 81st call of countSolutions is under way.
C24_Witness ==
  dPc = "counting" /\ idx = NumCells - 1 /\ holes < holesTarget

\* A step in which handleNewGame catches the error of generateFullBoard.
GenerationFails == loading' = loading - 1 /\ effects'.threw

\* C25: when generateFullBoard throws while game:new is handled, the
\* handler has called the generator once, solution, puzzle and givenMask are
\* what they were (the part of the handler before its wait does not change
\* them either), one error:generation event and nothing else is emitted, and
\* the loading state is cleared.
C25_FailedGenerationKeepsGame ==
  [][/\ loading' = loading + 1 =>
          solution' = solution /\ puzzle' = puzzle /\ givenMask' = givenMask
     /\ GenerationFails =>
          /\ solution' = solution /\ puzzle' = puzzle /\ givenMask' = givenMask
          /\ effects'.generatorCalls = 1
          /\ effects'.emitted = <<"error:generation">>
          /\ ~busy']_vars

\* The generation failed while a game with holes was on the board.
C25_Witness ==
  effects.threw /\ ~busy /\ puzzle # NoGrid /\ puzzle # solution /\ loading = 0

\* Callers save records, starting from empty storage.
StorageInit == UiIdle /\ EngineIdle

SpecStorage == StorageInit /\ [][StorageNext]_vars

\* The times of the records h holds.
TimesOf(h) == {h[i].time : i \in 1 .. Len(h)}

\* C29: from empty storage and after any saveRecord(d, t) calls with t >= 0,
\* records[d].best is the least time in records[d].history, and the isBest
\* flag of the record:saved event is true exactly when the new time is
\* strictly smaller than every earlier time saved for d.
C29_BestIsLeastTime ==
  /\ \A d \in Difficulties :
       records[d].history # << >> =>
         /\ records[d].best \in TimesOf(records[d].history)
         /\ \A t \in TimesOf(records[d].history) : records[d].best <= t
  /\ lastSaved # NoEvent =>
       LET h == records[lastSaved.difficulty].history
       IN lastSaved.isBest <=>
            \A t \in TimesOf(SubSeq(h, 1, Len(h) - 1)) : lastSaved.time < t

\* Games are completed and the records are synchronised, from empty
\* storage and an empty remote table.
SyncInit == UiIdle /\ EngineIdle

SpecSync == SyncInit /\ [][SyncNext]_vars

\* C26: every local record whose synced flag is true has been inserted into
\* the remote table games: a record saved while a batch insert is in flight
\* is not marked by that sync, and a failed insert marks nothing.
C26_SyncedRecordsAreRemote ==
  \A d \in Difficulties : \A i \in 1 .. Len(records[d].history) :
    records[d].history[i].synced => games[records[d].history[i].at] >= 1

\* C27: no local record is inserted into the remote table games more than
\* once, whatever the interleaving of the syncs and of the uploads made when
\* a game is completed.
C27_NoRecordInsertedTwice == \A a \in Ats : games[a] <= 1

\* Increment requests reach the counter function, from a count of 0.
CounterInit == UiIdle /\ EngineIdle

SpecCounter == CounterInit /\ [][CounterNext]_vars

\* C28: after n increment requests have completed successfully, whatever
\* the interleaving of their KV reads and writes, the stored count is the
\* initial count plus n and the n responses carry n different counts.
C28_CounterCountsEveryRequest ==
  /\ kv = Len(responses)
  /\ \A i \in 1 .. Len(responses) : \A j \in 1 .. Len(responses) :
       responses[i] = responses[j] => i = j

\* A step in which handleTimerTick saves the game.
TickAutosave == saved' # saved /\ saved' # NoSave /\ saved'.elapsed # Undefined

\* C30: in every state reached by game:new (with its wait), game:reset,
\* game:pause, game:resume and board:complete events in any order, when
\* isPaused is set the timer is not running, and no timer tick saves the
\* game while it is set.
C30_PausedTimerStands ==
  /\ [](globalState.isPaused => ~timer.running)
  /\ [][globalState.isPaused => ~TickAutosave]_vars

====
